---------------------------- MODULE Spec2Model ----------------------------
(***************************************************************************)
(* The task queue and execution worker of the code-executor bot            *)
(* (src/main.py): CodeExecutorBot.add_task, _task_worker, _execute_task,   *)
(* get_task, get_user_tasks, get_recent_tasks, and the handlers for code   *)
(* input, status, the user's task list and cleanup.                        *)
(*                                                                         *)
(* Two threads share the bot object: the dispatcher thread, which runs     *)
(* every handler to its end before the next one, and the daemon worker     *)
(* thread started by CodeExecutorBot.__init__.  Each statement of the      *)
(* worker that writes a field another thread can read is one step.         *)
(***************************************************************************)
EXTENDS Integers, Sequences, FiniteSets, TLC

(* ---------------------------- bounds ---------------------------------- *)
\* Task objects ever created.
MaxTasks == 3
\* Steps the wall clock takes.
MaxTicks == 1
\* Users are 1..MaxUser.
MaxUser == 2

(* ------------------------- program constants --------------------------- *)
\* TASK_HISTORY_SIZE (100 in the source), scaled down so that eviction happens.
TASK_HISTORY_SIZE == 2
\* subprocess.run(..., timeout=60)
TIMEOUT == 60
\* timedelta(hours=1), in seconds
HOUR == 3600
\* hash(code) % 10000
HASH_MOD == 10000
\* handle_code_input: len(code) > 5000
MAX_CODE_LEN == 5000
\* get_user_tasks: [-10:] (10 in the source), scaled down so that it cuts.
USER_TASKS_LIMIT == 2

Users == 1..MaxUser
\* ADMIN_USERS, parsed from the environment variable ADMIN_IDS.
ADMIN_USERS == {1}
\* A text is the sequence of its characters; the backquote is written out.
BackQuote == "backquote"
Fence == <<BackQuote, BackQuote, BackQuote>>
PlainText == <<"x", "=", "1">>
FencedText == Fence \o <<"\n", "x", "=", "1", "\n">> \o Fence
TaggedText == Fence \o <<"P", "y", "t", "h", "o", "n", "\n", "x", "=", "1">>
                    \o Fence
CommandText == <<"/", "x">>
LongText == [i \in 1..(MAX_CODE_LEN + 1) |-> "x"]
ShortText == <<"x">>
EmptyFence == Fence \o Fence
\* The message texts users send.
Texts == {PlainText, FencedText, TaggedText, CommandText, LongText}
\* The same, and texts whose code is one character long or empty.
InputTexts == Texts \cup {ShortText, EmptyFence}
\* The clock (seconds) advances by a second or by just over an hour.
TickSteps == {1, HOUR + 1}
\* What a child process can exit with: its return code, stdout and stderr.
ChildResults ==
    {[kind |-> "exit", rc |-> 0, out |-> "out", err |-> ""],
     [kind |-> "exit", rc |-> 1, out |-> "", err |-> "err"]}
\* The two messages _execute_task writes itself.
TimeoutMsg == "timeout: 60 seconds at most"
ExceptionMsg == "error while executing"

NoTime == -1
NoTask == 0
\* An id no add_task call returned (context.args[0] is any string).
UnknownId == <<-1, 0, 0>>

VARIABLES
    now,            \* the wall clock, in seconds
    ticks,          \* clock steps taken
    task,           \* the Task objects, in creation order
    tasks,          \* bot.tasks: id -> Task object
    task_queue,     \* bot.task_queue
    task_history,   \* bot.task_history
    user_stats,     \* bot.user_stats (a defaultdict: the keys touched so far)
    system_stats,   \* bot.system_stats
    dpc,            \* dispatcher thread: "idle", or its place in add_task
    dtask,          \* add_task's local task
    wpc,            \* worker thread: its place in _task_worker/_execute_task
    cur,            \* the worker's local task
    tstart,         \* _execute_task's local start_time
    elapsed,        \* _execute_task's local execution_time
    proc,           \* the task whose child process is alive
    outcome,        \* what running each task's code came to
    files,          \* temporary script files that exist
    putOrder,       \* history: tasks in the order they were put on the queue
    startOrder,     \* history: tasks in the order they were set running
    finishOrder,    \* history: tasks in the order their status became terminal
    cleaned,        \* history: tasks that cleanup removed from bot.tasks
    cleaned_count   \* button_callback's cleaned_count, as last reported

vars == <<now, ticks, task, tasks, task_queue, task_history, user_stats,
          system_stats, dpc, dtask, wpc, cur, tstart, elapsed, proc,
          outcome, files, putOrder, startOrder, finishOrder, cleaned,
          cleaned_count>>

(* ------------------------------ helpers -------------------------------- *)
Objs == 1..Len(task)

Range(s) == {s[i] : i \in 1..Len(s)}

Reverse(s) == [i \in 1..Len(s) |-> s[Len(s) + 1 - i]]

\* Python's s[-k:] for k >= 0: -0 is 0, so s[-0:] is the whole list.
PyLast(s, k) ==
    IF k = 0 \/ k >= Len(s) THEN s ELSE SubSeq(s, Len(s) - k + 1, Len(s))

\* dict assignment d[k] = v
DictSet(d, k, v) == [x \in DOMAIN d \cup {k} |-> IF x = k THEN v ELSE d[x]]

\* dict with the keys in ks deleted
DictDel(d, ks) == [x \in DOMAIN d \ ks |-> d[x]]

\* Task.__init__ and the assignments add_task makes before storing the task
NewTask(task_id, user_id, code) ==
    [id |-> task_id, user_id |-> user_id, code |-> code, status |-> "pending",
     output |-> "", error |-> "", start_time |-> now, end_time |-> NoTime,
     execution_time |-> 0]

\* The characters of the texts, in the order that numbers them.
Alphabet == <<BackQuote, "/", " ", "\n", "P", "p", "y", "t", "h", "o", "n", "x",
              "=", "1">>

Ord(c) == CHOOSE i \in 1..Len(Alphabet) : Alphabet[i] = c

\* hash(code): a number that depends on every character of the string and
\* on nothing else (the interpreter's own function is salted per process).
RECURSIVE PyHash(_)
PyHash(s) ==
    IF s = <<>> THEN 0
    ELSE (PyHash(SubSeq(s, 1, Len(s) - 1)) * 31 + Ord(s[Len(s)])) % 1000003

\* f"task_{int(time.time())}_{user_id}_{hash(code) % 10000}"
TaskId(user_id, code) == <<now, user_id, PyHash(code) % HASH_MOD>>

\* str.startswith, str.endswith
StartsWith(s, p) == Len(s) >= Len(p) /\ SubSeq(s, 1, Len(p)) = p
EndsWith(s, p) ==
    Len(s) >= Len(p) /\ SubSeq(s, Len(s) - Len(p) + 1, Len(s)) = p

\* s[a:-b] for a, b > 0
PySlice(s, a, b) ==
    IF Len(s) - b > a THEN SubSeq(s, a + 1, Len(s) - b) ELSE <<>>

\* s[a:]
PyFrom(s, a) == IF Len(s) > a THEN SubSeq(s, a + 1, Len(s)) ELSE <<>>

\* str.strip(): leading and trailing whitespace removed
Strip(s) ==
    LET ink == {i \in 1..Len(s) : s[i] \notin {" ", "\n"}} IN
    IF ink = {} THEN <<>>
    ELSE SubSeq(s, CHOOSE i \in ink : \A j \in ink : i <= j,
                   CHOOSE i \in ink : \A j \in ink : i >= j)

\* str.lower()
Lower(s) == [i \in 1..Len(s) |-> IF s[i] = "P" THEN "p" ELSE s[i]]

\* handle_code_input, lines 231-234: the code inside a fenced block
ExtractCode(text) ==
    IF StartsWith(text, Fence) /\ EndsWith(text, Fence)
    THEN LET inner == Strip(PySlice(text, 3, 3)) IN
         IF StartsWith(Lower(inner), <<"p", "y", "t", "h", "o", "n">>)
         THEN Strip(PyFrom(inner, 6))
         ELSE inner
    ELSE text

\* user_stats is defaultdict(lambda: {'tasks': 0, 'success': 0, 'errors': 0}):
\* what the lambda returns
DefaultStat == [tasks |-> 0, success |-> 0, errors |-> 0]

\* user_stats[u] as a reader finds it
UserStat(u) == IF u \in DOMAIN user_stats THEN user_stats[u] ELSE DefaultStat

IsTerminal(s) == s \in {"completed", "failed"}

NoOutcome == [kind |-> "none", rc |-> 0, out |-> "", err |-> ""]

Init ==
    /\ now = 0
    /\ ticks = 0
    /\ task = <<>>
    /\ tasks = <<>>
    /\ task_queue = <<>>
    /\ task_history = <<>>
    /\ user_stats = <<>>
    /\ system_stats = [total_tasks |-> 0, successful_tasks |-> 0,
                       failed_tasks |-> 0, total_execution_time |-> 0]
    /\ dpc = "idle"
    /\ dtask = NoTask
    /\ wpc = "get"
    /\ cur = NoTask
    /\ tstart = 0
    /\ elapsed = 0
    /\ proc = NoTask
    /\ outcome = <<>>
    /\ files = {}
    /\ putOrder = <<>>
    /\ startOrder = <<>>
    /\ finishOrder = <<>>
    /\ cleaned = {}
    /\ cleaned_count = 0

(* ------------------------------ the clock ------------------------------ *)
Tick ==
    /\ ticks < MaxTicks
    /\ \E d \in TickSteps : now' = now + d
    /\ ticks' = ticks + 1
    /\ UNCHANGED <<task, tasks, task_queue, task_history, user_stats,
                   system_stats, dpc, dtask, wpc, cur, tstart, elapsed,
                   proc, outcome, files, putOrder, startOrder, finishOrder,
                   cleaned, cleaned_count>>

(* ------------------------- dispatcher thread --------------------------- *)
\* add_task, lines 89-95: the id, the Task object, tasks[task_id] = task
AddTaskStore(u, c) ==
    /\ task' = Append(task, NewTask(TaskId(u, c), u, c))
    /\ tasks' = DictSet(tasks, TaskId(u, c), Len(task) + 1)
    /\ outcome' = Append(outcome, NoOutcome)
    /\ dtask' = Len(task) + 1
    /\ dpc' = "put"
    /\ UNCHANGED <<now, ticks, task_queue, task_history, user_stats,
                   system_stats, wpc, cur, tstart, elapsed, proc,
                   files, putOrder, startOrder, finishOrder, cleaned,
                   cleaned_count>>

\* handle_code_input, lines 223-240, for a text of T: a command is ignored,
\* a code of more than 5000 characters is answered with a warning, any other
\* code goes to add_task
HandleCodeInput(T) ==
    /\ dpc = "idle"
    /\ Len(task) < MaxTasks
    /\ \E u \in Users, text \in T :
         IF StartsWith(text, <<"/">>) THEN UNCHANGED vars
         ELSE IF Len(ExtractCode(text)) > MAX_CODE_LEN THEN UNCHANGED vars
         ELSE AddTaskStore(u, ExtractCode(text))

\* add_task, line 96: self.task_queue.put(task)
AddTaskPut ==
    /\ dpc = "put"
    /\ task_queue' = Append(task_queue, dtask)
    /\ putOrder' = Append(putOrder, dtask)
    /\ dpc' = "stats"
    /\ UNCHANGED <<now, ticks, task, tasks, task_history, user_stats,
                   system_stats, dtask, wpc, cur, tstart, elapsed,
                   proc, outcome, files, startOrder, finishOrder, cleaned,
                   cleaned_count>>

\* add_task, line 97, self.user_stats[user_id] when the key is missing:
\* defaultdict.__missing__ calls the lambda, and stores what it returned
\* only after the call.  The interpreter can switch threads inside the call,
\* so the lookup that found no key and the store are two steps.
AddTaskStatsMissing ==
    /\ dpc = "stats"
    /\ task[dtask].user_id \notin DOMAIN user_stats
    /\ dpc' = "missing"
    /\ UNCHANGED <<now, ticks, task, tasks, task_queue, task_history,
                   user_stats, system_stats, dtask, wpc, cur, tstart, elapsed,
                   proc, outcome, files, putOrder, startOrder, finishOrder,
                   cleaned, cleaned_count>>

\* add_task, lines 97-100: the two submission counters, and the return.
\* stat is the dictionary the lookup of line 97 gave: the stored one (at
\* "stats"), or the new one __missing__ stores now (at "missing").
AddTaskStatsAt(at, stat) ==
    /\ dpc = at
    /\ user_stats' = DictSet(user_stats, task[dtask].user_id,
                             [stat EXCEPT !.tasks = @ + 1])
    /\ system_stats' = [system_stats EXCEPT !.total_tasks = @ + 1]
    /\ dtask' = NoTask
    /\ dpc' = "idle"
    /\ UNCHANGED <<now, ticks, task, tasks, task_queue, task_history, wpc,
                   cur, tstart, elapsed, proc, outcome, files, putOrder,
                   startOrder, finishOrder, cleaned, cleaned_count>>

\* The lookup of line 97 and what follows it, as one step.
AddTaskStats ==
    /\ dpc = "stats"
    /\ AddTaskStatsAt("stats", UserStat(task[dtask].user_id))

\* The same when the lookup finds the key.
AddTaskStatsFound ==
    /\ dpc = "stats"
    /\ task[dtask].user_id \in DOMAIN user_stats
    /\ AddTaskStatsAt("stats", user_stats[task[dtask].user_id])

\* __missing__ stores the new dictionary, and what follows.
AddTaskStatsCreated == AddTaskStatsAt("missing", DefaultStat)

\* get_task
GetTask(task_id) == IF task_id \in DOMAIN tasks THEN tasks[task_id] ELSE NoTask

\* get_recent_tasks(limit)
GetRecentTasks(limit) == Reverse(PyLast(task_history, limit))

\* (mutant) the test of the submitter left out
GetUserTasksOfAnyone(user_id) == PyLast(task_history, USER_TASKS_LIMIT)

\* get_user_tasks
GetUserTasks(user_id) ==
    PyLast(SelectSeq(task_history, LAMBDA t : task[t].user_id = user_id),
           USER_TASKS_LIMIT)

\* my_tasks_command, line 347: the order the tasks are listed in
MyTasksListing(user_id) == Reverse(GetUserTasks(user_id))

\* (mutant) the check of line 282 left out
StatusReplyUnchecked(user, task_id) ==
    LET t == GetTask(task_id) IN
    IF t = NoTask THEN [kind |-> "notfound", shown |-> NoTask]
    ELSE [kind |-> "view", shown |-> t]

\* status_command, lines 268-284: what the requester is told about task_id
\* (shown: the task whose fields the reply holds)
StatusReply(user, task_id) ==
    LET t == GetTask(task_id) IN
    IF t = NoTask THEN [kind |-> "notfound", shown |-> NoTask]
    ELSE IF task[t].user_id # user /\ user \notin ADMIN_USERS
         THEN [kind |-> "unauthorized", shown |-> NoTask]
         ELSE [kind |-> "view", shown |-> t]

\* The ids a requester may name: every id add_task made, and one it never made.
KnownIds == {task[t].id : t \in Objs} \cup {UnknownId}

\* (mutant) the age of a task taken from its start_time
OldTasksByStart ==
    {i \in DOMAIN tasks : task[tasks[i]].start_time < now - HOUR}

\* (mutant) the test that end_time is set left out
OldTasksUnfinishedToo ==
    {i \in DOMAIN tasks : task[tasks[i]].end_time < now - HOUR}

\* button_callback 'cleanup', lines 523-525: the ids of the old tasks
OldTasks ==
    {i \in DOMAIN tasks :
        /\ task[tasks[i]].end_time # NoTime
        /\ task[tasks[i]].end_time < now - HOUR}

\* button_callback 'cleanup', lines 522-532
Cleanup ==
    /\ dpc = "idle"
    /\ tasks' = DictDel(tasks, OldTasks)
    /\ cleaned' = cleaned \cup {tasks[i] : i \in OldTasks}
    /\ cleaned_count' = Cardinality(OldTasks)
    /\ UNCHANGED <<now, ticks, task, task_queue, task_history, user_stats,
                   system_stats, dpc, dtask, wpc, cur, tstart, elapsed, proc,
                   outcome, files, putOrder, startOrder, finishOrder>>

Dispatcher == HandleCodeInput(Texts) \/ AddTaskPut \/ AddTaskStats \/ Cleanup

\* The dispatcher thread with the steps of defaultdict.__missing__ apart.
StatsDispatcher ==
    HandleCodeInput(Texts) \/ AddTaskPut \/ AddTaskStatsMissing
        \/ AddTaskStatsFound \/ AddTaskStatsCreated \/ Cleanup


(* --------------------------- worker thread ----------------------------- *)
\* (mutant) a stack instead of a queue: the newest item
QueueGetNewest(q) == [item |-> q[Len(q)], rest |-> SubSeq(q, 1, Len(q) - 1)]

\* (mutant) the oldest item is read and stays queued
QueuePeek(q) == [item |-> Head(q), rest |-> q]

\* queue.Queue.get: the oldest item, and what stays queued
QueueGet(q) == [item |-> Head(q), rest |-> Tail(q)]

\* (mutant) no handler: the exception ends the worker thread
TaskWorkerDies == "dead"

\* _task_worker, lines 116-117: an exception that leaves _execute_task is
\* caught and printed, and the while loop goes on
TaskWorkerOnException == "get"

\* (mutant) the return code is not looked at
ExitStatusIgnoringCode(returncode) == "completed"

\* _execute_task, line 143
ExitStatus(returncode) == IF returncode = 0 THEN "completed" ELSE "failed"

\* (mutant) a timeout recorded as a success
TimeoutExpiredCompleted == "completed"

\* _execute_task, line 156
TimeoutExpiredStatus == "failed"

\* _task_worker, lines 111-112
TrimHistory(h) == IF Len(h) > TASK_HISTORY_SIZE THEN Tail(h) ELSE h

\* _task_worker, line 106, queue.Empty (lines 114-115): poll again
WGetEmpty ==
    /\ wpc = "get"
    /\ task_queue = <<>>
    /\ UNCHANGED vars

\* _task_worker, line 106: task = self.task_queue.get(timeout=1)
WGet ==
    /\ wpc = "get"
    /\ task_queue # <<>>
    /\ cur' = QueueGet(task_queue).item
    /\ task_queue' = QueueGet(task_queue).rest
    /\ wpc' = "l121"
    /\ UNCHANGED <<now, ticks, task, tasks, task_history, user_stats,
                   system_stats, dpc, dtask, tstart, elapsed, proc,
                   outcome, files, putOrder, startOrder, finishOrder, cleaned,
                   cleaned_count>>

\* _execute_task, line 121: task.status = "running"
WSetRunning ==
    /\ wpc = "l121"
    /\ task' = [task EXCEPT ![cur].status = "running"]
    /\ startOrder' = Append(startOrder, cur)
    /\ wpc' = "l124"
    /\ UNCHANGED <<now, ticks, tasks, task_queue, task_history, user_stats,
                   system_stats, dpc, dtask, cur, tstart, elapsed,
                   proc, outcome, files, putOrder, finishOrder, cleaned,
                   cleaned_count>>

\* _execute_task, lines 124-126, outside the try: the temporary file is
\* created and written.  Creating it can fail (no file is left), and writing
\* it can fail (the file is left: delete=False); either exception leaves
\* _execute_task and reaches _task_worker's handler.
WTempFile ==
    /\ wpc = "l124"
    /\ \/ /\ files' = files \cup {cur}
          /\ wpc' = "l129"
          /\ UNCHANGED <<cur, outcome>>
       \/ /\ files' = files
          /\ outcome' = [outcome EXCEPT ![cur].kind = "tmpfail"]
          /\ wpc' = TaskWorkerOnException
          /\ cur' = NoTask
       \/ /\ files' = files \cup {cur}
          /\ outcome' = [outcome EXCEPT ![cur].kind = "tmpfail"]
          /\ wpc' = TaskWorkerOnException
          /\ cur' = NoTask
    /\ UNCHANGED <<now, ticks, task, tasks, task_queue, task_history,
                   user_stats, system_stats, dpc, dtask, tstart,
                   elapsed, proc, putOrder, startOrder, finishOrder, cleaned,
                   cleaned_count>>

\* _execute_task, lines 129-130: start_time = time.time() and subprocess.run
\* starts the child, or raises because it cannot (lines 163-169 handle it)
WSpawn ==
    /\ wpc = "l129"
    /\ tstart' = now
    /\ \/ /\ proc' = cur
          /\ wpc' = "l130"
          /\ UNCHANGED outcome
       \/ /\ proc' = NoTask
          /\ outcome' = [outcome EXCEPT ![cur].kind = "spawnerror"]
          /\ wpc' = "l164"
    /\ UNCHANGED <<now, ticks, task, tasks, task_queue, task_history,
                   user_stats, system_stats, dpc, dtask, cur, elapsed,
                   files, putOrder, startOrder, finishOrder, cleaned,
                   cleaned_count>>

\* _execute_task, lines 130-138: subprocess.run returns when the child exits
\* within the timeout (then execution_time = time.time() - start_time), or
\* kills the child at the timeout and raises TimeoutExpired
WWait ==
    /\ wpc = "l130"
    /\ proc' = NoTask
    /\ \/ /\ now - tstart <= TIMEOUT
          /\ \E r \in ChildResults : outcome' = [outcome EXCEPT ![cur] = r]
          /\ elapsed' = now - tstart
          /\ wpc' = "l140"
       \/ /\ now - tstart >= TIMEOUT
          /\ outcome' = [outcome EXCEPT ![cur].kind = "timeout"]
          /\ elapsed' = elapsed
          /\ wpc' = "l156"
    /\ UNCHANGED <<now, ticks, task, tasks, task_queue, task_history,
                   user_stats, system_stats, dpc, dtask, cur, tstart,
                   files, putOrder, startOrder, finishOrder, cleaned,
                   cleaned_count>>

\* A step of _execute_task that assigns the fields of the worker's task and
\* moves to the line `next`.
WAssign(at, new, next) ==
    /\ wpc = at
    /\ task' = [task EXCEPT ![cur] = new]
    /\ finishOrder' = IF IsTerminal(new.status) /\ ~IsTerminal(task[cur].status)
                      THEN Append(finishOrder, cur) ELSE finishOrder
    /\ wpc' = next
    /\ UNCHANGED <<now, ticks, tasks, task_queue, task_history, user_stats,
                   system_stats, dpc, dtask, cur, tstart, elapsed,
                   proc, outcome, files, putOrder, startOrder, cleaned,
                   cleaned_count>>

\* _execute_task, line 140: task.execution_time = execution_time
W140 == WAssign("l140", [task[cur] EXCEPT !.execution_time = elapsed], "l141")

\* _execute_task, line 141: task.output = result.stdout
W141 == WAssign("l141", [task[cur] EXCEPT !.output = outcome[cur].out], "l142")

\* _execute_task, line 142: task.error = result.stderr
W142 == WAssign("l142", [task[cur] EXCEPT !.error = outcome[cur].err], "l143")

\* _execute_task, line 143: task.status by the return code
W143 ==
    WAssign("l143", [task[cur] EXCEPT !.status = ExitStatus(outcome[cur].rc)],
            "l144")

\* _execute_task, line 144: task.end_time = datetime.now()
W144 == WAssign("l144", [task[cur] EXCEPT !.end_time = now], "l146")

\* _execute_task, lines 147, 151, 160, 168, self.user_stats[task.user_id]
\* when the key is missing (add_task has queued the user's first task and
\* has not yet come to its line 97): as in AddTaskStatsMissing, the lookup
\* that found no key and the store of the new dictionary are two steps.
WStatsMissing ==
    /\ wpc \in {"l146", "l160"}
    /\ task[cur].user_id \notin DOMAIN user_stats
    /\ wpc' = IF wpc = "l146" THEN "l146m" ELSE "l160m"
    /\ UNCHANGED <<now, ticks, task, tasks, task_queue, task_history,
                   user_stats, system_stats, dpc, dtask, cur, tstart, elapsed,
                   proc, outcome, files, putOrder, startOrder, finishOrder,
                   cleaned, cleaned_count>>

\* _execute_task, lines 146-153: the counters after a normal exit.  stat is
\* the dictionary the lookup gave: the stored one, or the new one
\* __missing__ stores now.
WExitStatsAt(at, stat) ==
    /\ wpc = at
    /\ LET u == task[cur].user_id IN
       IF task[cur].status = "completed" THEN
         /\ user_stats' = DictSet(user_stats, u,
                             [stat EXCEPT !.success = @ + 1])
         /\ system_stats' = [system_stats EXCEPT
                                !.successful_tasks = @ + 1,
                                !.total_execution_time = @ + elapsed]
       ELSE
         /\ user_stats' = DictSet(user_stats, u,
                             [stat EXCEPT !.errors = @ + 1])
         /\ system_stats' = [system_stats EXCEPT
                                !.failed_tasks = @ + 1,
                                !.total_execution_time = @ + elapsed]
    /\ wpc' = "l173"
    /\ UNCHANGED <<now, ticks, task, tasks, task_queue, task_history, dpc,
                   dtask, cur, tstart, elapsed, proc, outcome, files,
                   putOrder, startOrder, finishOrder, cleaned, cleaned_count>>

WExitStats ==
    /\ wpc = "l146"
    /\ WExitStatsAt("l146", UserStat(task[cur].user_id))

WExitStatsFound ==
    /\ wpc = "l146"
    /\ task[cur].user_id \in DOMAIN user_stats
    /\ WExitStatsAt("l146", user_stats[task[cur].user_id])

WExitStatsCreated == WExitStatsAt("l146m", DefaultStat)

\* _execute_task, lines 156-158: except subprocess.TimeoutExpired
W156 == WAssign("l156", [task[cur] EXCEPT !.status = TimeoutExpiredStatus],
                "l157")
W157 == WAssign("l157", [task[cur] EXCEPT !.error = TimeoutMsg], "l158")
W158 == WAssign("l158", [task[cur] EXCEPT !.end_time = now], "l160")

\* _execute_task, lines 164-166: except Exception
W164 == WAssign("l164", [task[cur] EXCEPT !.status = "failed"], "l165")
W165 == WAssign("l165", [task[cur] EXCEPT !.error = ExceptionMsg], "l166")
W166 == WAssign("l166", [task[cur] EXCEPT !.end_time = now], "l160")

\* _execute_task, lines 160-161 and 168-169: the failure counters
WFailStatsAt(at, stat) ==
    /\ wpc = at
    /\ user_stats' = DictSet(user_stats, task[cur].user_id,
                             [stat EXCEPT !.errors = @ + 1])
    /\ system_stats' = [system_stats EXCEPT !.failed_tasks = @ + 1]
    /\ wpc' = "l173"
    /\ UNCHANGED <<now, ticks, task, tasks, task_queue, task_history, dpc,
                   dtask, cur, tstart, elapsed, proc, outcome, files,
                   putOrder, startOrder, finishOrder, cleaned, cleaned_count>>

WFailStats ==
    /\ wpc = "l160"
    /\ WFailStatsAt("l160", UserStat(task[cur].user_id))

WFailStatsFound ==
    /\ wpc = "l160"
    /\ task[cur].user_id \in DOMAIN user_stats
    /\ WFailStatsAt("l160", user_stats[task[cur].user_id])

WFailStatsCreated == WFailStatsAt("l160m", DefaultStat)

\* _execute_task, lines 171-175: finally, os.remove(script_path); the
\* function returns and its locals are gone
WFinally ==
    /\ wpc = "l173"
    /\ files' = files \ {cur}
    /\ tstart' = 0
    /\ elapsed' = 0
    /\ wpc' = "l110"
    /\ UNCHANGED <<now, ticks, task, tasks, task_queue, task_history,
                   user_stats, system_stats, dpc, dtask, cur, proc, outcome,
                   putOrder, startOrder, finishOrder, cleaned, cleaned_count>>

\* _task_worker, line 110: self.task_history.append(task)
WAppend ==
    /\ wpc = "l110"
    /\ task_history' = Append(task_history, cur)
    /\ wpc' = "l111"
    /\ UNCHANGED <<now, ticks, task, tasks, task_queue, user_stats,
                   system_stats, dpc, dtask, cur, tstart, elapsed,
                   proc, outcome, files, putOrder, startOrder, finishOrder,
                   cleaned, cleaned_count>>

\* _task_worker, lines 111-112: drop the oldest entry when over capacity
WTrim ==
    /\ wpc = "l111"
    /\ task_history' = TrimHistory(task_history)
    /\ cur' = NoTask
    /\ wpc' = "get"
    /\ UNCHANGED <<now, ticks, task, tasks, task_queue, user_stats,
                   system_stats, dpc, dtask, tstart, elapsed, proc,
                   outcome, files, putOrder, startOrder, finishOrder, cleaned,
                   cleaned_count>>

Worker == WGet \/ WSetRunning \/ WTempFile \/ WSpawn \/ WWait
          \/ W140 \/ W141 \/ W142 \/ W143 \/ W144 \/ WExitStats
          \/ W156 \/ W157 \/ W158 \/ W164 \/ W165 \/ W166 \/ WFailStats
          \/ WFinally \/ WAppend \/ WTrim

\* The worker thread with the steps of defaultdict.__missing__ apart.
StatsWorker ==
    WGet \/ WSetRunning \/ WTempFile \/ WSpawn \/ WWait
        \/ W140 \/ W141 \/ W142 \/ W143 \/ W144
        \/ W156 \/ W157 \/ W158 \/ W164 \/ W165 \/ W166
        \/ WStatsMissing \/ WExitStatsFound \/ WExitStatsCreated
        \/ WFailStatsFound \/ WFailStatsCreated
        \/ WFinally \/ WAppend \/ WTrim

Next == Tick \/ Dispatcher \/ Worker \/ WGetEmpty

Spec == Init /\ [][Next]_vars

\* The worker thread is scheduled again and again, and subprocess.run
\* always returns: the child exits or is killed at the timeout.
FairSpec == Spec /\ WF_vars(Worker)

\* Both threads, with a thread switch allowed inside a lookup of user_stats
\* that finds no key.  Spec takes such a lookup as one step; no property
\* checked under Spec reads user_stats.
StatsNext == Tick \/ StatsDispatcher \/ StatsWorker \/ WGetEmpty

StatsSpec == Init /\ [][StatsNext]_vars

\* The dispatcher thread alone, taking every text of InputTexts.
InputNext == Tick \/ HandleCodeInput(InputTexts) \/ AddTaskPut \/ AddTaskStats

InputSpec == Init /\ [][InputNext]_vars

(* ------------------------------ properties ----------------------------- *)
\* add_task has returned for t
Returned(t) == t \in Objs /\ t # dtask

\* the worker took t off the queue and is done with it
Handled(t) == t \in Range(startOrder) /\ t # cur

Started(t) == t \in Range(startOrder)

\* the tasks that finished before the TASK_HISTORY_SIZE most recent ones
EarlierFinished ==
    {finishOrder[k] : k \in 1..(Len(finishOrder) - TASK_HISTORY_SIZE)}

\* C1: every task add_task created ends with a terminal status.  Stated for
\* the runs that have come to rest: when the worker is back at the head of
\* its loop, the queue is empty and no add_task is under way, nothing will
\* ever touch a task again, so each must be terminal by then.
C1_EveryTaskEndsTerminal ==
    (wpc = "get" /\ task_queue = <<>> /\ dpc = "idle")
        => \A t \in Objs : IsTerminal(task[t].status)

\* C2: the id add_task returned resolves, through get_task, to the task that
\* very call created, until cleanup removes it; no two calls return one id.
C2_IdResolvesToOwnTask ==
    /\ \A t \in Objs : (Returned(t) /\ t \notin cleaned)
                           => GetTask(task[t].id) = t
    /\ \A t, u \in Objs : (Returned(t) /\ Returned(u) /\ t # u)
                           => task[t].id # task[u].id

\* C3: tasks are set running in the order they were put on the queue,
\* whoever submitted them.
C3_StartedInSubmissionOrder ==
    /\ Len(startOrder) <= Len(putOrder)
    /\ startOrder = SubSeq(putOrder, 1, Len(startOrder))

C3_Witness ==
    /\ Len(startOrder) >= 2
    /\ task[startOrder[1]].user_id # task[startOrder[2]].user_id

\* C4: at most one task has status running.
C4_AtMostOneRunning ==
    Cardinality({t \in Objs : task[t].status = "running"}) <= 1

\* (the other half of C4's sentence) at most one child process exists: proc
\* is one task or none, and it is the worker's own task
AtMostOneChild == proc # NoTask => proc = cur /\ wpc = "l130"

C6_QueuedTaskIsStarted ==
    \A n \in 1..MaxTasks : (n \in Range(task_queue)) ~> Started(n)

C6_Witness ==
    \E a, b, n \in Objs :
        /\ outcome[a].kind = "tmpfail"
        /\ outcome[b].kind = "timeout"
        /\ \E i, j, k \in 1..Len(startOrder) :
              /\ i < k /\ j < k
              /\ startOrder[i] = a /\ startOrder[j] = b /\ startOrder[k] = n

\* C7: once a task's status is terminal, none of its fields changes.
C7_TerminalTaskFrozen ==
    [][\A t \in Objs : IsTerminal(task[t].status) => task'[t] = task[t]]_vars

\* C8: after a normal exit the task is completed exactly when the return
\* code is 0 and failed otherwise, and its output and error are the child's
\* stdout and stderr.
C8_ExitStatusAndCapture ==
    \A t \in Objs : (outcome[t].kind = "exit" /\ Handled(t))
        => /\ task[t].status = "completed" <=> outcome[t].rc = 0
           /\ task[t].status = "failed" <=> outcome[t].rc # 0
           /\ task[t].output = outcome[t].out
           /\ task[t].error = outcome[t].err

C8_Witness ==
    \E t, u \in Objs :
        /\ outcome[t].kind = "exit" /\ Handled(t) /\ outcome[t].rc = 0
        /\ task[t].output # ""
        /\ outcome[u].kind = "exit" /\ Handled(u) /\ outcome[u].rc # 0
        /\ task[u].error # ""

\* (the history half of C9) between two tasks, history is the
\* TASK_HISTORY_SIZE most recently finished tasks, and get_recent_tasks
\* returns them newest first; the tasks finished before them are not in it
HistoryKeepsMostRecent ==
    (wpc = "get" /\ Len(finishOrder) > TASK_HISTORY_SIZE)
        => /\ GetRecentTasks(TASK_HISTORY_SIZE)
                = Reverse(PyLast(finishOrder, TASK_HISTORY_SIZE))
           /\ \A t \in EarlierFinished : t \notin Range(task_history)

\* C9: once more than TASK_HISTORY_SIZE tasks have finished,
\* get_recent_tasks(TASK_HISTORY_SIZE) is the TASK_HISTORY_SIZE most recently
\* finished tasks, newest first; each task finished earlier is out of the
\* history and get_task still returns it, until cleanup removes it.
C9_RecentTasksAndEvicted ==
    (wpc = "get" /\ Len(finishOrder) > TASK_HISTORY_SIZE)
        => /\ GetRecentTasks(TASK_HISTORY_SIZE)
                = Reverse(PyLast(finishOrder, TASK_HISTORY_SIZE))
           /\ \A t \in EarlierFinished :
                /\ t \notin Range(task_history)
                /\ t \notin cleaned => GetTask(task[t].id) = t

\* C10: a status query for an id not in the store is answered not found; one
\* by a requester who is neither the task's submitter nor an administrator
\* is answered unauthorized and shows nothing of the task; one by the
\* submitter or an administrator shows the task.
C10_StatusAuthorization ==
    \A u \in Users, i \in KnownIds :
        LET r == StatusReply(u, i) IN
        /\ i \notin DOMAIN tasks
              => r.kind = "notfound" /\ r.shown = NoTask
        /\ (i \in DOMAIN tasks /\ task[tasks[i]].user_id # u
                /\ u \notin ADMIN_USERS)
              => r.kind = "unauthorized" /\ r.shown = NoTask
        /\ (i \in DOMAIN tasks
                /\ (task[tasks[i]].user_id = u \/ u \in ADMIN_USERS))
              => r.kind = "view" /\ r.shown = tasks[i]

C10_Witness ==
    /\ \E u \in Users, i \in DOMAIN tasks :
          StatusReply(u, i).kind = "unauthorized"
    /\ \E u \in ADMIN_USERS, i \in DOMAIN tasks :
          task[tasks[i]].user_id # u /\ StatusReply(u, i).kind = "view"
    /\ \E u \in Users \ ADMIN_USERS, i \in DOMAIN tasks :
          task[tasks[i]].user_id = u /\ StatusReply(u, i).kind = "view"
    /\ \E u \in Users, i \in KnownIds : StatusReply(u, i).kind = "notfound"


(* C11: a submission whose code is shorter than 3 characters or longer than
   5000 characters is rejected and creates no task, so every task there is
   holds a code of 3 to 5000 characters. *)
C11_RejectedLengthsCreateNoTask ==
    \A t \in Objs :
        Len(task[t].code) >= 3 /\ Len(task[t].code) <= MAX_CODE_LEN

(* C12: a step of the cleanup handler removes from bot.tasks exactly the
   entries whose task has its end_time set and more than an hour in the past,
   keeps every other entry as it was, reports the number of entries removed,
   and leaves task_history, user_stats, system_stats and the queue unchanged. *)
C12_CleanupRemovesOldOnly ==
    [][Cleanup =>
        LET old == {i \in DOMAIN tasks :
                       /\ task[tasks[i]].end_time # NoTime
                       /\ now - task[tasks[i]].end_time > HOUR} IN
        /\ DOMAIN tasks' = DOMAIN tasks \ old
        /\ \A i \in DOMAIN tasks' : tasks'[i] = tasks[i]
        /\ cleaned_count' = Cardinality(old)
        /\ UNCHANGED <<task_history, user_stats, system_stats, task_queue,
                       task>>]_vars

\* A cleanup removed a finished task and kept an unfinished one that was
\* submitted more than an hour ago.
C12_Witness ==
    /\ cleaned_count >= 1
    /\ \E t \in cleaned : IsTerminal(task[t].status)
    /\ \E i \in DOMAIN tasks :
          /\ task[tasks[i]].end_time = NoTime
          /\ now - task[tasks[i]].start_time > HOUR

\* The place of a finished task among the tasks in the order they finished.
FinishPos(t) == CHOOSE i \in 1..Len(finishOrder) : finishOrder[i] = t

\* What get_user_tasks(u) returns, whatever its order: tasks of u that are in
\* task_history, at most USER_TASKS_LIMIT of them, and the ones that finished
\* last.
UserTasksFromHistory(u, r) ==
    LET mine == {t \in Range(task_history) : task[t].user_id = u} IN
    /\ Range(r) \subseteq mine
    /\ Len(r) = Cardinality(Range(r))
    /\ Len(r) <= USER_TASKS_LIMIT
    /\ Len(r) = USER_TASKS_LIMIT \/ Range(r) = mine
    /\ \A t \in mine \ Range(r) : \A x \in Range(r) :
          FinishPos(t) < FinishPos(x)

(* C13 as stated: get_user_tasks(u) returns tasks of u that are in
   task_history, the most recent ones, the most recent first. *)
C13_UserTasksNewestFirst ==
    \A u \in Users :
        LET r == GetUserTasks(u) IN
        /\ UserTasksFromHistory(u, r)
        /\ \A i, j \in 1..Len(r) : i < j => FinishPos(r[i]) > FinishPos(r[j])

(* C13, amended: get_user_tasks(u) returns tasks of u that are in
   task_history, the most recent ones, the oldest first; my_tasks_command
   lists the same tasks the most recent first. *)
C13_UserTasksOldestFirst ==
    \A u \in Users :
        LET r == GetUserTasks(u)
            l == MyTasksListing(u) IN
        /\ UserTasksFromHistory(u, r)
        /\ \A i, j \in 1..Len(r) : i < j => FinishPos(r[i]) < FinishPos(r[j])
        /\ Range(l) = Range(r) /\ Len(l) = Len(r)
        /\ \A i, j \in 1..Len(l) : i < j => FinishPos(l[i]) > FinishPos(l[j])

\* A task of u was evicted from task_history and is still in bot.tasks,
\* while two later tasks of u are returned.
C13_Witness ==
    \E u \in Users : \E t \in Range(finishOrder) :
        /\ task[t].user_id = u
        /\ t # cur /\ t \notin Range(task_history)
        /\ GetTask(task[t].id) = t
        /\ Len(GetUserTasks(u)) = 2

(* C14: a task whose temporary file could not be created or written, or
   whose child process could not be started, is failed with the system-error
   message once _execute_task has left it; it is not left running. *)
C14_RunnerFailureEndsFailed ==
    \A t \in Objs :
        Handled(t) /\ outcome[t].kind \in {"tmpfail", "spawnerror"}
            => task[t].status = "failed" /\ task[t].error = ExceptionMsg

(* C16: in every state, a task that is pending or running has empty output
   and empty error. *)
C16_NoOutputBeforeTerminal ==
    \A t \in Objs :
        task[t].status \in {"pending", "running"}
            => task[t].output = "" /\ task[t].error = ""

(* C17: in every state, a task's end_time is set if and only if its status
   is completed or failed. *)
C17_EndTimeIffTerminal ==
    \A t \in Objs : task[t].end_time # NoTime <=> IsTerminal(task[t].status)

(* C20: a temporary script file exists only while _execute_task is at work
   on its task: once the execution of a task has ended, on whatever path,
   its file is gone. *)
C20_TempFileDeleted ==
    \A t \in files : t = cur /\ wpc \notin {"get", "l110", "l111"}

(* C15: a task's status changes only from pending to running and from
   running to completed or failed; a task is created pending; the task the
   worker takes from the queue was never taken before and is no longer
   queued; the task that is set running was never set running before. *)
C15_StatusMovesForwardOnce ==
    [][/\ \A t \in Objs :
            task'[t].status # task[t].status
                => <<task[t].status, task'[t].status>> \in
                      {<<"pending", "running">>, <<"running", "completed">>,
                       <<"running", "failed">>}
       /\ \A t \in (1..Len(task')) \ Objs : task'[t].status = "pending"
       /\ cur' # cur /\ cur' # NoTask
            => /\ cur' \notin Range(startOrder)
               /\ cur' \notin Range(task_queue')
               /\ task[cur'].status = "pending"
       /\ startOrder' # startOrder
            => startOrder'[Len(startOrder')] \notin Range(startOrder)]_vars

\* One task has failed and another is running while an add_task call is
\* between storing and queueing a third, pending one.
C15_Witness ==
    /\ \E t \in Objs : task[t].status = "failed" /\ Handled(t)
    /\ cur # NoTask /\ task[cur].status = "running"
    /\ dpc = "put" /\ task[dtask].status = "pending"

\* The sum of a counter of user_stats over the users 1..n.
RECURSIVE SumUserStat(_, _)
SumUserStat(field, n) ==
    IF n = 0 THEN 0 ELSE UserStat(n)[field] + SumUserStat(field, n - 1)

TerminalTasks == {t \in Objs : IsTerminal(task[t].status)}

(* C18: whenever the worker is between tasks, successful_tasks +
   failed_tasks is the number of tasks with a terminal status, the per-user
   success and errors counters sum to successful_tasks and failed_tasks,
   every terminal task was appended to task_history once (it holds as many
   entries as there are terminal tasks, up to its capacity), and
   task_history holds only terminal tasks, none of them twice. *)
C18_FinishedCountedOnce ==
    wpc = "get" =>
        /\ system_stats.successful_tasks + system_stats.failed_tasks
              = Cardinality(TerminalTasks)
        /\ SumUserStat("success", MaxUser) = system_stats.successful_tasks
        /\ SumUserStat("errors", MaxUser) = system_stats.failed_tasks
        /\ Range(task_history) \subseteq TerminalTasks
        /\ Cardinality(Range(task_history)) = Len(task_history)
        /\ Len(task_history) =
              IF Cardinality(TerminalTasks) < TASK_HISTORY_SIZE
              THEN Cardinality(TerminalTasks) ELSE TASK_HISTORY_SIZE

(* C19: in every state, system_stats['total_tasks'] is the number of
   add_task calls that have returned, and user_stats[u]['tasks'] is the
   number of those made by u. *)
C19_NoSubmissionCountLost ==
    /\ system_stats.total_tasks = Cardinality({t \in Objs : Returned(t)})
    /\ \A u \in Users :
          UserStat(u).tasks =
              Cardinality({t \in Objs : Returned(t) /\ task[t].user_id = u})

(* C21: in every state, task_history holds at most TASK_HISTORY_SIZE
   entries. *)
C21_HistoryWithinCapacity == Len(task_history) <= TASK_HISTORY_SIZE

(* C22: every task a step of the cleanup handler removes from bot.tasks has
   a terminal status, and a task that is pending or running and that
   get_task returned before the step is returned by get_task after it. *)
C22_CleanupKeepsUnfinished ==
    [][Cleanup =>
        /\ \A i \in DOMAIN tasks \ DOMAIN tasks' :
              IsTerminal(task[tasks[i]].status)
        /\ \A t \in Objs :
              ~IsTerminal(task[t].status) /\ GetTask(task[t].id) = t
                  => task[t].id \in DOMAIN tasks' /\ tasks'[task[t].id] = t
       ]_vars

\* A cleanup has removed a task, and get_task still returns a running task
\* that was submitted more than an hour ago and a pending task in the queue.
C22_Witness ==
    /\ cleaned # {}
    /\ cur # NoTask /\ task[cur].status = "running"
    /\ now - task[cur].start_time > HOUR
    /\ GetTask(task[cur].id) = cur
    /\ \E t \in Range(task_queue) :
          task[t].status = "pending" /\ GetTask(task[t].id) = t

=============================================================================
